---- MODULE Spec2Model ----
(***************************************************************************)
(* A model of the lexical Scope tree (src/src/scope/scope.ts) and of the   *)
(* literal-array inlining pass ArrayUnpacker                               *)
(* (src/src/modifications/arrays/arrayUnpacker.ts).                        *)
(*                                                                         *)
(* Scope objects live in an arena: a sequence of records, a Scope being    *)
(* its index, 0 standing for undefined/null.  A JavaScript Map is a        *)
(* function whose DOMAIN is the key set.                                   *)
(***************************************************************************)
EXTENDS Integers, Sequences, FiniteSets, TLC

VARIABLES
    scopes,     \* the arena of Scope objects ever constructed
    last,       \* ScopeSpec: the last Scope operation called and its outcome
    prog,       \* the parsed program: what each node is (never changes)
    kids,       \* the tree: for each node, its child slots in order
    run,        \* "first" or "second" ArrayUnpacker built on the tree
    shouldRemoveArrays,     \* ArrayUnpacker.shouldRemoveArrays
    globalScope,            \* ArrayUnpacker.globalScope
    arrayNodes,             \* ArrayUnpacker.arrayNodes
    arrays,     \* the Array descriptors built so far, by declaration node
    pc,         \* where execute() stands
    scope,      \* the local variable scope of findArrays / unpackArrays
    foundArrays,            \* the local variable foundArrays of findArrays
    stack,      \* the position of the running traversal
    round,      \* history: the number of findArrays calls of this execute()
    regRound,   \* history: the round each declaration was registered in
    mutations,  \* history: replaceNode and removeNode calls of this execute()
    orch        \* deobfuscate(): its config, modifications, position and log

scopeVars == <<scopes, last>>
treeVars == <<prog, kids>>
passVars == <<run, shouldRemoveArrays, globalScope, arrayNodes, arrays, pc,
              scope, foundArrays, stack, round, regRound, mutations>>
vars == <<scopes, last, prog, kids, run, shouldRemoveArrays, globalScope,
          arrayNodes, arrays, pc, scope, foundArrays, stack, round, regRound,
          mutations, orch>>

(***************************************************************************)
(* Bounds and input sets.                                                  *)
(***************************************************************************)
MaxScopes == 4

ScopeTypes == {"Global", "Function", "Other"}
VariableTypes == {"const", "let", "var", "global", "unspecified"}
BindNames == {"x"}
BindValues == {1, 2}

(***************************************************************************)
(* JavaScript Map.                                                         *)
(***************************************************************************)
EmptyMap == << >>

MapHas(m, k) == k \in DOMAIN m

MapSet(m, k, v) == [x \in (DOMAIN m) \cup {k} |-> IF x = k THEN v ELSE m[x]]

(***************************************************************************)
(* class Scope<T>                                                          *)
(***************************************************************************)
\* new Scope(node, type, parent): the new Scope is appended to the arena and,
\* when it has a parent, registered in the parent's children under its node.
NewScope(arena, node, type, parent) ==
    LET id == Len(arena) + 1
        made == Append(arena, [node |-> node, type |-> type, parent |-> parent,
                               children |-> EmptyMap, elements |-> EmptyMap])
    IN  IF parent # 0
        THEN [made EXCEPT ![parent].children = MapSet(@, node, id)]
        ELSE made

\* A get that never delegates to the parent.
getOwnOnly(arena, s, name) ==
    IF MapHas(arena[s].elements, name) THEN arena[s].elements[name] ELSE 0

\* Scope.get(name): own elements first, then the parent's get, null at the root.
RECURSIVE get(_, _, _)
get(arena, s, name) ==
    IF MapHas(arena[s].elements, name)
    THEN arena[s].elements[name]
    ELSE IF arena[s].parent # 0 THEN get(arena, arena[s].parent, name) ELSE 0

\* A findScope that settles for the Scope it starts from when the chain has
\* no Scope of a wanted type.
RECURSIVE findScopeOrSelf(_, _, _)
findScopeOrSelf(arena, s, types) ==
    IF s = 0 THEN 0
    ELSE IF arena[s].type \in types \/ arena[s].parent = 0 THEN s
    ELSE findScopeOrSelf(arena, arena[s].parent, types)

\* Scope.findScope(types): this Scope or its nearest ancestor whose type is
\* one of types; undefined (0) when the chain has none.
RECURSIVE findScope(_, _, _)
findScope(arena, s, types) ==
    IF s = 0 THEN 0
    ELSE IF arena[s].type \in types THEN s
    ELSE findScope(arena, arena[s].parent, types)

\* The value of add's parameter type: the default 'const' replaces an
\* argument that is left out (or undefined).
addType(kind) == IF kind = "unspecified" THEN "const" ELSE kind

\* An add that places a var like a const: in the Scope it is called on.
addTargetNoHoist(arena, s, kind) ==
    IF addType(kind) \in {"const", "let", "var"} THEN s ELSE 0

\* The Scope that add's switch writes to: 0 when it writes to none.  The
\* switch has the cases 'const', 'let', 'var' and undefined; any other
\* value of type falls through the switch.
addTarget(arena, s, kind) ==
    LET type == addType(kind)
    IN  CASE type \in {"const", "let"} -> s
          [] type = "var" -> findScope(arena, s, {"Function", "Global"})
          [] type = "undefined" -> findScope(arena, s, {"Global"})
          [] OTHER -> 0

\* add throws when a case of the switch looks for a Scope and finds none.
addThrows(arena, s, kind) ==
    /\ addType(kind) \in {"var", "undefined"}
    /\ addTarget(arena, s, kind) = 0

\* Scope.add(name, element, type): the arena after the call.
add(arena, s, name, element, kind) ==
    LET t == addTarget(arena, s, kind)
    IN  IF t = 0 THEN arena
        ELSE [arena EXCEPT ![t].elements = MapSet(@, name, element)]

\* Scope.getDeclarationScope(type): this Scope for 'const' and 'let', the
\* result of findScope for 'var' and 'global'; 0 when the call throws (no
\* Scope found) and when the switch has no case for type (an undefined
\* argument) and the function returns undefined.
getDeclarationScope(arena, s, kind) ==
    CASE kind \in {"const", "let"} -> s
      [] kind = "var" -> findScope(arena, s, {"Function", "Global"})
      [] kind = "global" -> findScope(arena, s, {"Global"})
      [] OTHER -> 0

\* getDeclarationScope throws when its findScope finds no Scope.
getDeclarationScopeThrows(arena, s, kind) ==
    /\ kind \in {"var", "global"}
    /\ getDeclarationScope(arena, s, kind) = 0

(***************************************************************************)
(* ScopeSpec: a client that builds a Scope tree and calls add and get.     *)
(***************************************************************************)
\* The Scopes a new Scope may be opened under: the most recently opened
\* Scope and its ancestors (Scopes are opened in a depth-first walk).
RECURSIVE chain(_, _)
chain(arena, s) ==
    IF s = 0 THEN << >> ELSE <<s>> \o chain(arena, arena[s].parent)

Range(q) == {q[i] : i \in DOMAIN q}

\* The values bound anywhere so far.  add is given the least value not yet
\* bound: the elements are opaque to Scope, and distinct values tell the
\* bindings apart.
Bound(arena) ==
    UNION {Range(arena[s].elements) : s \in DOMAIN arena}

\* deobfuscate() has not been called.
NoDeobfuscate == [pc |-> "none", config |-> << >>, modifications |-> << >>,
                  slot |-> 0, i |-> 0, log |-> << >>]

NoOp == [op |-> "none", scope |-> 0, name |-> "", kind |-> "", value |-> 0,
         threw |-> FALSE]

ScopeInit ==
    /\ scopes = << >>
    /\ last = NoOp
    /\ prog = << >>
    /\ kids = << >>
    /\ run = "none"
    /\ shouldRemoveArrays = FALSE
    /\ globalScope = 0
    /\ arrayNodes = {}
    /\ arrays = << >>
    /\ pc = "none"
    /\ scope = 0
    /\ foundArrays = FALSE
    /\ stack = << >>
    /\ round = 0
    /\ regRound = << >>
    /\ mutations = 0
    /\ orch = NoDeobfuscate

Construct ==
    /\ Len(scopes) < MaxScopes
    /\ \E type \in ScopeTypes :
       \E parent \in (IF scopes = << >> THEN {0}
                       ELSE Range(chain(scopes, Len(scopes)))) :
          /\ scopes' = NewScope(scopes, Len(scopes) + 1, type, parent)
          /\ last' = [NoOp EXCEPT !.op = "new", !.scope = Len(scopes) + 1]
          /\ UNCHANGED <<orch, treeVars, passVars>>

AddOp ==
    \E free \in {BindValues \ Bound(scopes)} :
    \E value \in {v \in free : \A w \in free : v <= w} :
    \E s \in DOMAIN scopes, name \in BindNames, kind \in VariableTypes :
        /\ scopes' = add(scopes, s, name, value, kind)
        /\ last' = [op |-> "add", scope |-> s, name |-> name, kind |-> kind,
                    value |-> value, threw |-> addThrows(scopes, s, kind)]
        /\ UNCHANGED <<orch, treeVars, passVars>>

GetOp ==
    \E s \in DOMAIN scopes, name \in BindNames :
        /\ last' = [op |-> "get", scope |-> s, name |-> name, kind |-> "",
                    value |-> get(scopes, s, name), threw |-> FALSE]
        /\ UNCHANGED <<orch, scopes, treeVars, passVars>>

GetDeclarationScopeOp ==
    \E s \in DOMAIN scopes, kind \in VariableTypes :
        /\ last' = [op |-> "getDeclarationScope", scope |-> s, name |-> "",
                    kind |-> kind,
                    value |-> getDeclarationScope(scopes, s, kind),
                    threw |-> getDeclarationScopeThrows(scopes, s, kind)]
        /\ UNCHANGED <<orch, scopes, treeVars, passVars>>

ScopeNext == Construct \/ AddOp \/ GetOp

ScopeSpec == ScopeInit /\ [][ScopeNext]_vars

\* A client that builds a Scope tree, calls add and queries
\* getDeclarationScope.
DeclarationNext == Construct \/ AddOp \/ GetDeclarationScopeOp

DeclarationSpec == ScopeInit /\ [][DeclarationNext]_vars

(***************************************************************************)
(* The program tree.                                                       *)
(*                                                                         *)
(* Node 1 is the Script, node 2 a Block in it and node 3 a FunctionBody in *)
(* that Block.  Declaration d is the VariableDeclaration 10d holding the   *)
(* VariableDeclarator 10d+1, whose init is the ArrayExpression 10d+2 with  *)
(* the elements 10d+2+p; use u is the ComputedMemberExpression 100+u, and  *)
(* 200+u is its index expression when that is an access itself.            *)
(* The identifier and the numeric literal of an access name[index] are     *)
(* kept as its name and index, a binding identifier as the declarator's    *)
(* name; statement wrappers with a single child are left out.  A hole of   *)
(* an array literal (a null element) is the slot value 0.                  *)
(***************************************************************************)
MaxLen == 2

ArrayNames == {"a", "b"}
ScopeNodes == {1, 2, 3}

\* Array elements: a numeric literal with its value, a hole, an access
\* name[index].
LitOf(v) == [kind |-> "lit", name |-> "", index |-> 0, value |-> v]
Lit == LitOf(0)
Hole == [kind |-> "hole", name |-> "", index |-> 0, value |-> 0]
Acc(name, index) == [kind |-> "acc", name |-> name, index |-> index, value |-> 0]

\* The index expression of a use: a numeric literal (no node of its own),
\* or an access name[index] that has a node of its own under the use.
NoInner == [name |-> "", index |-> 0]
IsNested(use) == use.inner # NoInner

DeclOf(n) == n \div 10
ElemOf(n) == (n % 10) - 2

NodeType(n) ==
    CASE n = 1 -> "Script"
      [] n = 2 -> "Block"
      [] n = 3 -> "FunctionBody"
      [] n > 100 -> "ComputedMemberExpression"
      [] n % 10 = 0 -> "VariableDeclaration"
      [] n % 10 = 1 -> "VariableDeclarator"
      [] n % 10 = 2 -> "ArrayExpression"
      [] OTHER -> IF prog.decls[DeclOf(n)].elems[ElemOf(n)].kind = "acc"
                  THEN "ComputedMemberExpression"
                  ELSE "LiteralNumericExpression"

\* node.binding.name of a VariableDeclarator
BindingName(n) == prog.decls[DeclOf(n)].name

\* node.object.name of an access
AccessName(n) ==
    IF n > 200 THEN prog.uses[n - 200].inner.name
    ELSE IF n > 100 THEN prog.uses[n - 100].name
    ELSE prog.decls[DeclOf(n)].elems[ElemOf(n)].name

\* The value of a numeric literal node (an element of an array literal).
LiteralValue(n) == prog.decls[DeclOf(n)].elems[ElemOf(n)].value

\* node.expression.value of an access: the value of the numeric literal that
\* is its index expression now; -1 (undefined) while the index expression
\* is not a numeric literal.
AccessIndex(n) ==
    IF n > 200 THEN prog.uses[n - 200].inner.index
    ELSE IF n > 100
    THEN IF kids[n] = << >> THEN prog.uses[n - 100].index
         ELSE IF NodeType(kids[n][1]) = "LiteralNumericExpression"
         THEN LiteralValue(kids[n][1])
         ELSE -1
    ELSE prog.decls[DeclOf(n)].elems[ElemOf(n)].index

\* The statements of scope node s as parsed: its declarations, the nested
\* scope node, its uses.
Statements(p, s) ==
    SelectSeq([d \in DOMAIN p.decls |-> 10 * d],
              LAMBDA n : p.decls[n \div 10].scope = s)
    \o (IF s < 3 THEN <<s + 1>> ELSE << >>)
    \o SelectSeq([u \in DOMAIN p.uses |-> 100 + u],
                 LAMBDA n : p.uses[n - 100].scope = s)

Nodes(p) ==
    ScopeNodes
    \cup {10 * d + k : d \in DOMAIN p.decls, k \in 0..2}
    \cup UNION {{10 * d + 2 + i : i \in {j \in DOMAIN p.decls[d].elems :
                                           p.decls[d].elems[j].kind # "hole"}}
                : d \in DOMAIN p.decls}
    \cup {100 + u : u \in DOMAIN p.uses}
    \cup {200 + u : u \in {v \in DOMAIN p.uses : IsNested(p.uses[v])}}

\* The tree the parser hands over.
ParsedTree(p) ==
    [n \in Nodes(p) |->
        CASE n \in ScopeNodes -> Statements(p, n)
          [] n > 200 -> << >>
          [] n > 100 /\ n <= 200 ->
                IF IsNested(p.uses[n - 100]) THEN <<n + 100>> ELSE << >>
          [] n % 10 = 0 -> <<n + 1>>
          [] n % 10 = 1 -> <<n + 1>>
          [] n % 10 = 2 ->
                [i \in DOMAIN p.decls[DeclOf(n)].elems |->
                    IF p.decls[DeclOf(n)].elems[i].kind = "hole" THEN 0 ELSE n + i]
          [] OTHER -> << >>]

(***************************************************************************)
(* helpers/traverse, helpers/traversalHelper, arrays/array                 *)
(***************************************************************************)
\* The children traverse descends into: the non-null child slots, in order,
\* as they are when the node has been entered.
Children(tree, n) == SelectSeq(tree[n], LAMBDA c : c # 0)

ReplaceIn(q, old, new) == [i \in DOMAIN q |-> IF q[i] = old THEN new ELSE q[i]]

\* TraversalHelper.replaceNode(parent, node, replacement)
replaceNode(tree, parent, node, replacement) ==
    [tree EXCEPT ![parent] = ReplaceIn(@, node, replacement)]

\* TraversalHelper.removeNode(parent, node)
removeNode(tree, parent, node) ==
    [tree EXCEPT ![parent] = SelectSeq(@, LAMBDA c : c # node)]

\* new Array(node, parent, name, elements): elements is the elements array
\* of the initializer itself (a reference), named here by the ArrayExpression
\* that owns it.
NewArray(node, parent, name, elements) ==
    [node |-> node, parentNode |-> parent, name |-> name,
     elements |-> elements, replaceCount |-> 0]

(***************************************************************************)
(* class ArrayUnpacker                                                     *)
(***************************************************************************)
scopeTypes == {"Block", "FunctionBody"}

isLiteralArrayDeclaration(n) ==
    /\ NodeType(n) = "VariableDeclarator"
    /\ kids[n] # << >>
    /\ NodeType(kids[n][1]) = "ArrayExpression"
    /\ \A i \in DOMAIN kids[kids[n][1]] :
          \/ kids[kids[n][1]][i] = 0
          \/ NodeType(kids[kids[n][1]][i]) = "LiteralNumericExpression"

isSimpleArrayAccess(n) ==
    /\ NodeType(n) = "ComputedMemberExpression"
    /\ \/ kids[n] = << >>
       \/ NodeType(kids[n][1]) = "LiteralNumericExpression"

\* A registration test that does not consult the seen set.
isLiteralArrayAgain(n) == isLiteralArrayDeclaration(n)

\* The test of findArrays' enter for registering a declaration.
isUnseenLiteralArray(n) == isLiteralArrayDeclaration(n) /\ n \notin arrayNodes

\* An element lookup that is off by one position.
ElementAtOffByOne(tree, array, index) ==
    IF index \in DOMAIN tree[array.elements]
    THEN tree[array.elements][index]
    ELSE 0

\* An element lookup that clamps the index to the last element.
ElementAtClamped(tree, array, index) ==
    IF index + 1 \in DOMAIN tree[array.elements]
    THEN tree[array.elements][index + 1]
    ELSE IF tree[array.elements] = << >> THEN 0
    ELSE tree[array.elements][Len(tree[array.elements])]

\* array.elements[index]: 0 for undefined (out of range) and for null (a hole)
ElementAt(tree, array, index) ==
    IF index + 1 \in DOMAIN tree[array.elements]
    THEN tree[array.elements][index + 1]
    ELSE 0

Top == stack[Len(stack)]

\* traverse(this.ast, ...) starts above the root, which has no parent.
StartTraverse == <<[node |-> 0, todo |-> <<1>>]>>

\* enter returned: the walk descends into the node just entered.
Descend(tree, node) ==
    Append([stack EXCEPT ![Len(stack)].todo = Tail(@)],
           [node |-> node, todo |-> Children(tree, node)])

\* A leave callback that never restores the enclosing Scope.
leaveWithoutRestore(node) == scope

\* the leave callback of both traversals
leave(node) ==
    IF node = scopes[scope].node /\ scopes[scope].parent # 0
    THEN scopes[scope].parent
    ELSE scope

\* findArrays(): lines 51-53, then the traversal begins.
findArraysCall ==
    /\ pc' = "findArrays"
    /\ scope' = globalScope
    /\ foundArrays' = FALSE
    /\ stack' = StartTraverse
    /\ round' = round + 1

\* new ArrayUnpacker(ast, removeArrays)
Constructor(removeArrays) ==
    /\ shouldRemoveArrays' = removeArrays
    /\ scopes' = NewScope(scopes, 1, "Other", 0)
    /\ globalScope' = Len(scopes) + 1
    /\ arrayNodes' = {}
    /\ arrays' = << >>
    /\ pc' = "constructed"
    /\ scope' = 0
    /\ foundArrays' = FALSE
    /\ stack' = << >>
    /\ round' = 0
    /\ regRound' = << >>
    /\ mutations' = 0

\* execute() is called: the first findArrays() of the loop.
Execute ==
    /\ pc = "constructed"
    /\ findArraysCall
    /\ UNCHANGED <<orch, scopes, last, treeVars, run, shouldRemoveArrays, globalScope,
                   arrayNodes, arrays, regRound, mutations>>

\* findArrays: enter(node, parent)
FindEnter ==
    /\ pc = "findArrays"
    /\ Top.todo # << >>
    /\ LET node == Head(Top.todo)
           parent == Top.node
       IN  /\ IF NodeType(node) \in scopeTypes
              THEN /\ scopes' = NewScope(scopes, node, "Other", scope)
                   /\ scope' = Len(scopes) + 1
                   /\ UNCHANGED <<arrays, arrayNodes, foundArrays, regRound>>
              ELSE IF isUnseenLiteralArray(node)
              THEN /\ arrays' = MapSet(arrays, node,
                          NewArray(node, parent, BindingName(node), kids[node][1]))
                   /\ scopes' = add(scopes, scope, BindingName(node), node,
                                    "unspecified")
                   /\ arrayNodes' = arrayNodes \cup {node}
                   /\ foundArrays' = TRUE
                   /\ regRound' = MapSet(regRound, node, round)
                   /\ UNCHANGED scope
              ELSE UNCHANGED <<scopes, scope, arrays, arrayNodes, foundArrays,
                               regRound>>
           /\ stack' = Descend(kids, node)
    /\ UNCHANGED <<orch, last, treeVars, run, shouldRemoveArrays, globalScope, pc,
                   round, mutations>>

\* findArrays: leave(node)
FindLeave ==
    /\ pc = "findArrays"
    /\ Top.todo = << >>
    /\ Top.node # 0
    /\ scope' = leave(Top.node)
    /\ stack' = SubSeq(stack, 1, Len(stack) - 1)
    /\ UNCHANGED <<orch, scopes, last, treeVars, run, shouldRemoveArrays, globalScope,
                   arrayNodes, arrays, pc, foundArrays, round, regRound,
                   mutations>>

\* findArrays returns foundArrays to the loop of execute(): unpackArrays()
\* is called, or the loop ends and removeArrays is called when configured.
FindReturn ==
    /\ pc = "findArrays"
    /\ Top.todo = << >>
    /\ Top.node = 0
    /\ IF foundArrays
       THEN /\ pc' = "unpackArrays"
            /\ scope' = globalScope
            /\ stack' = StartTraverse
       ELSE /\ pc' = IF shouldRemoveArrays THEN "removeArrays" ELSE "done"
            /\ stack' = << >>
            /\ UNCHANGED scope
    /\ UNCHANGED <<orch, scopes, last, treeVars, run, shouldRemoveArrays, globalScope,
                   arrayNodes, arrays, foundArrays, round, regRound, mutations>>

\* unpackArrays: enter(node, parent)
UnpackEnter ==
    /\ pc = "unpackArrays"
    /\ Top.todo # << >>
    /\ LET node == Head(Top.todo)
           parent == Top.node
           array == get(scopes, scope, AccessName(node))
           replacement == ElementAt(kids, arrays[array], AccessIndex(node))
       IN  /\ IF NodeType(node) \in scopeTypes
              THEN /\ scope' = IF MapHas(scopes[scope].children, node)
                               THEN scopes[scope].children[node] ELSE 0
                   /\ UNCHANGED <<kids, arrays, mutations>>
              ELSE IF /\ isSimpleArrayAccess(node)
                      /\ array # 0
                      /\ replacement # 0
              THEN /\ arrays' = [arrays EXCEPT ![array].replaceCount = @ + 1]
                   /\ kids' = replaceNode(kids, parent, node, replacement)
                   /\ mutations' = mutations + 1
                   /\ UNCHANGED scope
              ELSE UNCHANGED <<scope, kids, arrays, mutations>>
           /\ stack' = Descend(kids, node)
    /\ UNCHANGED <<orch, scopes, last, prog, run, shouldRemoveArrays, globalScope,
                   arrayNodes, pc, foundArrays, round, regRound>>

\* unpackArrays: leave(node)
UnpackLeave ==
    /\ pc = "unpackArrays"
    /\ Top.todo = << >>
    /\ Top.node # 0
    /\ scope' = leave(Top.node)
    /\ stack' = SubSeq(stack, 1, Len(stack) - 1)
    /\ UNCHANGED <<orch, scopes, last, treeVars, run, shouldRemoveArrays, globalScope,
                   arrayNodes, arrays, pc, foundArrays, round, regRound,
                   mutations>>

\* unpackArrays returns: the loop of execute() calls findArrays() again.
UnpackReturn ==
    /\ pc = "unpackArrays"
    /\ Top.todo = << >>
    /\ Top.node = 0
    /\ findArraysCall
    /\ UNCHANGED <<orch, scopes, last, treeVars, run, shouldRemoveArrays, globalScope,
                   arrayNodes, arrays, regRound, mutations>>

\* The Array descriptors removeArrays(s) reaches: those in the elements of s
\* and of the Scopes below it in the children maps.
RECURSIVE Reached(_, _)
Reached(arena, s) ==
    Range(arena[s].elements)
    \cup UNION {Reached(arena, c) : c \in Range(arena[s].children)}

RECURSIVE removeEach(_, _)
removeEach(tree, S) ==
    IF S = {} THEN tree
    ELSE LET a == CHOOSE x \in S : TRUE
         IN  removeEach(removeNode(tree, arrays[a].parentNode, arrays[a].node),
                        S \ {a})

\* A removeArrays that does not look at the usage counter.
removeArraysUnused(tree, s) == removeEach(tree, Reached(scopes, s))

\* removeArrays(scope): removeNode for each reached descriptor that was used.
removeArrays(tree, s) ==
    removeEach(tree, {a \in Reached(scopes, s) : arrays[a].replaceCount > 0})

RemoveArrays ==
    /\ pc = "removeArrays"
    /\ kids' = removeArrays(kids, globalScope)
    /\ mutations' = mutations
          + Cardinality({a \in Reached(scopes, globalScope) :
                           arrays[a].replaceCount > 0})
    /\ pc' = "done"
    /\ UNCHANGED <<orch, scopes, last, prog, run, shouldRemoveArrays, globalScope,
                   arrayNodes, arrays, scope, foundArrays, stack, round,
                   regRound>>

\* A second ArrayUnpacker is built on the tree the first one left.
NewUnpacker ==
    /\ pc = "done"
    /\ run = "first"
    /\ run' = "second"
    /\ \E removeArraysArg \in BOOLEAN : Constructor(removeArraysArg)
    /\ UNCHANGED <<orch, last, treeVars>>

(***************************************************************************)
(* The programs the pass is run on.                                        *)
(***************************************************************************)
\* The lengths of the arrays and the indices of the uses: the shortest and
\* the longest array, the first and the last index and the one past the end.
Lengths == {1, MaxLen}
Indices == {0, MaxLen - 1, MaxLen}

Lits(n) == [i \in 1..n |-> Lit]
Accs(name, n, off) == [i \in 1..n |-> Acc(name, i - 1 + off)]

Decl(s, name, elems) == [scope |-> s, name |-> name, elems |-> elems]
Use(s, name, index) ==
    [scope |-> s, name |-> name, index |-> index, inner |-> NoInner]

\* A use name[iname[iindex]]: its index expression is an access.
NestedUse(s, name, iname, iindex) ==
    [scope |-> s, name |-> name, index |-> -1,
     inner |-> [name |-> iname, index |-> iindex]]

\* Initializers of the second array: literals, a literal after a hole, or
\* accesses a[off], a[off+1], ... to the first array.
SecondInits ==
    {Lits(n) : n \in Lengths}
    \cup {Accs("a", n, 0) : n \in Lengths}
    \cup {Accs("a", 1, 1), <<Hole, Lit>>}

\* Two arrays a and b anywhere in the three scopes and one use.
TwoArrays ==
    {[decls |-> <<Decl(s1, "a", Lits(n1)), Decl(s2, "b", e2)>>,
      uses |-> <<Use(su, nu, iu)>>] :
        s1 \in ScopeNodes, n1 \in Lengths, s2 \in ScopeNodes,
        e2 \in SecondInits,
        su \in ScopeNodes, nu \in ArrayNames, iu \in Indices}

\* A full-length a in the Script, b = [a[0], ...] in any scope, and a third
\* array that reuses one of the two names, literal or built from b.
ThreeArrays ==
    {[decls |-> <<Decl(1, "a", Lits(MaxLen)), Decl(s2, "b", Accs("a", MaxLen, 0)),
                  Decl(s3, n3, e3)>>,
      uses |-> <<Use(su, nu, iu)>>] :
        s2 \in ScopeNodes, s3 \in ScopeNodes, n3 \in ArrayNames,
        e3 \in {Lits(1), Accs("b", 1, 0)},
        su \in ScopeNodes, nu \in ArrayNames, iu \in {0, MaxLen - 1}}

\* a = [v] in the Script, a full-length b in any scope and a use b[a[0]]
\* in any scope.
NestedIndex ==
    {[decls |-> <<Decl(1, "a", <<LitOf(v)>>), Decl(s2, "b", Lits(MaxLen))>>,
      uses |-> <<NestedUse(su, "b", "a", 0)>>] :
        v \in Indices, s2 \in ScopeNodes, su \in ScopeNodes}

\* The edges of the cascade: a with a hole, b empty or naming the hole or
\* the literal beside it, and a use b[0] in any scope.
CascadeEdges ==
    {[decls |-> <<Decl(1, "a", e1), Decl(s2, "b", e2)>>,
      uses |-> <<Use(su, "b", 0)>>] :
        e1 \in {Lits(1), <<Hole, Lit>>},
        e2 \in {<< >>, Accs("a", 1, 0), Accs("a", 1, 1)},
        s2 \in ScopeNodes, su \in ScopeNodes}

Programs == TwoArrays \cup ThreeArrays \cup NestedIndex \cup CascadeEdges

Init ==
    /\ last = NoOp
    /\ prog \in Programs
    /\ kids = ParsedTree(prog)
    /\ run = "first"
    /\ scopes = NewScope(<< >>, 1, "Other", 0)
    /\ globalScope = 1
    /\ shouldRemoveArrays \in BOOLEAN
    /\ arrayNodes = {}
    /\ arrays = << >>
    /\ pc = "constructed"
    /\ scope = 0
    /\ foundArrays = FALSE
    /\ stack = << >>
    /\ round = 0
    /\ regRound = << >>
    /\ mutations = 0
    /\ orch = NoDeobfuscate

Next ==
    \/ Execute
    \/ FindEnter
    \/ FindLeave
    \/ FindReturn
    \/ UnpackEnter
    \/ UnpackLeave
    \/ UnpackReturn
    \/ RemoveArrays
    \/ NewUnpacker

Spec == Init /\ [][Next]_vars

(***************************************************************************)
(* deobfuscate(source, parsedConfig): the orchestrator.                    *)
(***************************************************************************)
\* The switches of Config that deobfuscate reads to build and construct the
\* modifications.
ConfigFlags ==
    {"replaceProxyFunctions", "removeProxyFunctions", "simplifyExpressions",
     "unpackArrays", "removeArrays", "removeDeadBranches",
     "simplifyProperties", "undoStringOperations", "renameHexIdentifiers"}

Configs == [ConfigFlags -> BOOLEAN]

\* A schedule on which the second ExpressionSimplifier runs before
\* ArrayUnpacker.
ScheduleSimplifyFirst ==
    << [pass |-> "ProxyRemover", flag |-> "replaceProxyFunctions"],
       [pass |-> "ExpressionSimplifier", flag |-> "simplifyExpressions"],
       [pass |-> "ExpressionSimplifier", flag |-> "simplifyExpressions"],
       [pass |-> "ArrayUnpacker", flag |-> "unpackArrays"],
       [pass |-> "DeadBranchRemover", flag |-> "removeDeadBranches"],
       [pass |-> "PropertySimplifier", flag |-> "simplifyProperties"],
       [pass |-> "StringDecoder", flag |-> "undoStringOperations"],
       [pass |-> "VariableRenamer", flag |-> "renameHexIdentifiers"] >>

\* The `if (config...) modifications.push(new ...)` statements of
\* deobfuscate, in the order they are written.
Schedule ==
    << [pass |-> "ProxyRemover", flag |-> "replaceProxyFunctions"],
       [pass |-> "ExpressionSimplifier", flag |-> "simplifyExpressions"],
       [pass |-> "ArrayUnpacker", flag |-> "unpackArrays"],
       [pass |-> "ExpressionSimplifier", flag |-> "simplifyExpressions"],
       [pass |-> "DeadBranchRemover", flag |-> "removeDeadBranches"],
       [pass |-> "PropertySimplifier", flag |-> "simplifyProperties"],
       [pass |-> "StringDecoder", flag |-> "undoStringOperations"],
       [pass |-> "VariableRenamer", flag |-> "renameHexIdentifiers"] >>

\* The constructor argument besides the ast: the removal switch of the two
\* passes that take one, FALSE for the others.
ConstructorArgument(config, pass) ==
    CASE pass = "ProxyRemover" -> config["removeProxyFunctions"]
      [] pass = "ArrayUnpacker" -> config["removeArrays"]
      [] OTHER -> FALSE

Event(ev, pass) == [ev |-> ev, pass |-> pass]

\* deobfuscate is called: the config is merged, the source parsed and
\* modifications is the empty list.
OrchInit ==
    /\ scopes = << >>
    /\ last = NoOp
    /\ prog = << >>
    /\ kids = << >>
    /\ run = "none"
    /\ shouldRemoveArrays = FALSE
    /\ globalScope = 0
    /\ arrayNodes = {}
    /\ arrays = << >>
    /\ pc = "none"
    /\ scope = 0
    /\ foundArrays = FALSE
    /\ stack = << >>
    /\ round = 0
    /\ regRound = << >>
    /\ mutations = 0
    /\ \E config \in Configs :
          orch = [pc |-> "build", config |-> config, modifications |-> << >>,
                  slot |-> 1, i |-> 1, log |-> << >>]

\* One `if (config.<flag>) { modifications.push(new <Pass>(ast, ...)) }`.
PushModification ==
    /\ orch.pc = "build"
    /\ orch.slot <= Len(Schedule)
    /\ orch' = [orch EXCEPT
          !.modifications =
              IF orch.config[Schedule[orch.slot].flag]
              THEN Append(@, [pass |-> Schedule[orch.slot].pass,
                              ast |-> "ast",
                              remove |-> ConstructorArgument(orch.config,
                                            Schedule[orch.slot].pass)])
              ELSE @,
          !.slot = @ + 1]
    /\ UNCHANGED <<scopeVars, treeVars, passVars>>

\* The for loop over modifications is reached.
StartLoop ==
    /\ orch.pc = "build"
    /\ orch.slot > Len(Schedule)
    /\ orch' = [orch EXCEPT !.pc = "loop", !.i = 1]
    /\ UNCHANGED <<scopeVars, treeVars, passVars>>

\* modification.execute() is called on the next modification.
ExecuteBegin ==
    /\ orch.pc = "loop"
    /\ orch.i <= Len(orch.modifications)
    /\ orch' = [orch EXCEPT
          !.pc = "execute",
          !.log = Append(@, Event("begin", orch.modifications[orch.i].pass))]
    /\ UNCHANGED <<scopeVars, treeVars, passVars>>

\* modification.execute() returns.
ExecuteEnd ==
    /\ orch.pc = "execute"
    /\ orch' = [orch EXCEPT
          !.pc = "loop",
          !.i = @ + 1,
          !.log = Append(@, Event("end", orch.modifications[orch.i].pass))]
    /\ UNCHANGED <<scopeVars, treeVars, passVars>>

\* The loop is over: CleanupHelper.cleanup(ast).
Cleanup ==
    /\ orch.pc = "loop"
    /\ orch.i > Len(orch.modifications)
    /\ orch' = [orch EXCEPT !.pc = "codeGen",
                            !.log = Append(@, Event("cleanup", ""))]
    /\ UNCHANGED <<scopeVars, treeVars, passVars>>

\* codeGen(ast) and return.
CodeGen ==
    /\ orch.pc = "codeGen"
    /\ orch' = [orch EXCEPT !.pc = "done"]
    /\ UNCHANGED <<scopeVars, treeVars, passVars>>

OrchNext ==
    \/ PushModification
    \/ StartLoop
    \/ ExecuteBegin
    \/ ExecuteEnd
    \/ Cleanup
    \/ CodeGen

OrchSpec == OrchInit /\ [][OrchNext]_vars

(***************************************************************************)
(* Claims about Scope (checked under ScopeSpec).                           *)
(***************************************************************************)
Min(S) == CHOOSE m \in S : \A n \in S : m <= n

\* The positions on s's parent chain (1 is s itself) whose Scope binds name.
BindersOnChain(arena, s, name) ==
    {i \in DOMAIN chain(arena, s) : MapHas(arena[chain(arena, s)[i]].elements, name)}

\* The positions on s's parent chain whose Scope has one of the types.
TypedOnChain(arena, s, types) ==
    {i \in DOMAIN chain(arena, s) : arena[chain(arena, s)[i]].type \in types}

NearestBinding(arena, s, name) ==
    IF BindersOnChain(arena, s, name) = {} THEN 0
    ELSE arena[chain(arena, s)[Min(BindersOnChain(arena, s, name))]].elements[name]

NearestTyped(arena, s, types) ==
    IF TypedOnChain(arena, s, types) = {} THEN 0
    ELSE chain(arena, s)[Min(TypedOnChain(arena, s, types))]

\* u lies within t: t is u or an ancestor of u.
Within(arena, u, t) == t \in Range(chain(arena, u))

\* C7: get(name) returns the value of the nearest binding of name on the
\* chain from the referencing Scope through its parents, null only when no
\* Scope on that chain binds name, and get changes no Scope.
C7_GetNearestBinding ==
    /\ [](last.op = "get" =>
            last.value = NearestBinding(scopes, last.scope, last.name))
    /\ [][last'.op = "get" => scopes' = scopes]_vars

\* C7 witness: A binds x=1, its child B binds x=2, and get from a sibling
\* of B under A has just returned 1.
C7_Witness ==
    /\ last.op = "get"
    /\ last.value = 1
    /\ \E a, b \in DOMAIN scopes :
        /\ scopes[b].parent = a
        /\ MapHas(scopes[a].elements, "x") /\ scopes[a].elements["x"] = 1
        /\ MapHas(scopes[b].elements, "x") /\ scopes[b].elements["x"] = 2
        /\ last.scope # b
        /\ scopes[last.scope].parent = a
        /\ get(scopes, b, "x") = 2

\* C8: add(name, value, 'var') writes the binding to the nearest Scope of
\* type Function or Global on the chain from the Scope it is called on, and
\* to no other Scope; afterwards get finds it from every Scope within that
\* Scope (unless a nearer Scope binds the name) and from no Scope outside.
C8_VarHoisting ==
    [][(last'.op = "add" /\ last'.kind = "var" /\ ~last'.threw) =>
        \E t \in {NearestTyped(scopes, last'.scope, {"Function", "Global"})} :
            /\ t # 0
            /\ scopes' = [scopes EXCEPT
                   ![t].elements = MapSet(@, last'.name, last'.value)]
            /\ \A u \in DOMAIN scopes :
                \E c \in {chain(scopes, u)}, found \in {get(scopes', u, last'.name)} :
                    /\ t \in Range(c) => found # 0
                    /\ (found = last'.value) <=>
                         /\ t \in Range(c)
                         /\ \A i \in DOMAIN c :
                              (\A j \in 1..i : c[j] # t)
                                  => ~MapHas(scopes[c[i]].elements, last'.name)
    ]_vars

\* C8 witness: a var was added in a block nested in a function that has a
\* sibling function; the binding sits in the function's Scope.
C8_Witness ==
    /\ last.op = "add" /\ last.kind = "var" /\ ~last.threw
    /\ \E f, g \in DOMAIN scopes :
        /\ f # g
        /\ scopes[f].type = "Function" /\ scopes[g].type = "Function"
        /\ scopes[f].parent # 0 /\ scopes[g].parent = scopes[f].parent
        /\ scopes[last.scope].type = "Other"
        /\ scopes[last.scope].parent = f
        /\ MapHas(scopes[f].elements, last.name)
        /\ scopes[f].elements[last.name] = last.value
        /\ get(scopes, f, last.name) = last.value
        /\ get(scopes, g, last.name) = 0

\* C9 (as claimed): after add(name, value, 'global') on a Scope below a
\* Scope of type Global, the nearest Global ancestor binds name to value.
C9_GlobalEscape ==
    (/\ last.op = "add" /\ last.kind = "global"
     /\ NearestTyped(scopes, last.scope, {"Global"}) \notin {0, last.scope})
    => /\ MapHas(scopes[NearestTyped(scopes, last.scope, {"Global"})].elements,
                 last.name)
       /\ get(scopes, NearestTyped(scopes, last.scope, {"Global"}), last.name)
            = last.value

\* C10: add(name, value, 'var') on a Scope whose chain has no Scope of type
\* Function or Global throws and leaves every Scope as it was.
C10_StructuralFailure ==
    [][(/\ last'.op = "add" /\ last'.kind = "var"
        /\ TypedOnChain(scopes, last'.scope, {"Function", "Global"}) = {})
        => (last'.threw /\ scopes' = scopes)]_vars

\* C10 witness: a var add on a nested Scope has just thrown.
C10_Witness ==
    /\ last.op = "add" /\ last.kind = "var" /\ last.threw
    /\ scopes[last.scope].parent # 0
    /\ \A s \in DOMAIN scopes : scopes[s].elements = EmptyMap

\* The Scope the claim has add(name, value, kind) write to: the one
\* getDeclarationScope returns for the kind, an unspecified kind counting as
\* 'global'.
DeclaredPlacement(arena, s, kind) ==
    getDeclarationScope(arena, s, IF kind = "unspecified" THEN "global" ELSE kind)

\* C11 (as claimed): when the Scope add was called on has a qualifying Scope
\* on its chain for the kind, the binding add was given is stored in exactly
\* the Scope getDeclarationScope returns for that kind (the nearest Global
\* Scope for 'global' and for an unspecified kind) and in no other.
C11_AddAgreesWithGetDeclarationScope ==
    (last.op = "add" /\ DeclaredPlacement(scopes, last.scope, last.kind) # 0) =>
        \A s \in DOMAIN scopes :
            (MapHas(scopes[s].elements, last.name)
                /\ scopes[s].elements[last.name] = last.value)
            <=> s = DeclaredPlacement(scopes, last.scope, last.kind)

(***************************************************************************)
(* Claims about ArrayUnpacker (checked under Spec).                        *)
(***************************************************************************)
\* The parent slots <<parent, position>> that hold node n.
SlotsOf(n) ==
    {<<p, i>> : p \in DOMAIN kids, i \in 1..MaxLen + 3} \cap
    {sl \in (DOMAIN kids) \X (1..MaxLen + 3) :
        sl[2] \in DOMAIN kids[sl[1]] /\ kids[sl[1]][sl[2]] = n}

\* The declaration node d is still held by the parent recorded for it.
Attached(d) == d \in Range(kids[arrays[d].parentNode])

\* C1 (as claimed): with cleanup configured, once execute() has finished
\* every descriptor with a usage counter above zero has had its declaration
\* node removed from its recorded parent, in whatever Scope it was recorded.
C1_UsedArraysRemoved ==
    (pc = "done" /\ shouldRemoveArrays) =>
        \A d \in DOMAIN arrays : arrays[d].replaceCount > 0 => ~Attached(d)

\* C3 (as claimed): no node occupies two parent slots at once.
C3_NoSharedNode ==
    \A n \in DOMAIN kids : Cardinality(SlotsOf(n)) <= 1

\* The declarations of the program and what the parser made of them.
Decls == DOMAIN prog.decls
Declarator(d) == 10 * d + 1
InitNode(d) == 10 * d + 2
ElemNode(d, i) == 10 * d + 2 + i
Length(d) == Len(prog.decls[d].elems)

\* The accesses name[index] of the parsed program, with the scope node that
\* encloses each and the slot the parser put it in.
AccessNodes == {n \in DOMAIN kids : NodeType(n) = "ComputedMemberExpression"}

HomeScope(n) ==
    IF n > 200 THEN prog.uses[n - 200].scope
    ELSE IF n > 100 THEN prog.uses[n - 100].scope
    ELSE prog.decls[DeclOf(n)].scope

HomeSlot(n) ==
    IF n > 200 THEN <<n - 100, 1>>
    ELSE IF n > 100
    THEN <<HomeScope(n),
           CHOOSE i \in DOMAIN Statements(prog, HomeScope(n)) :
                Statements(prog, HomeScope(n))[i] = n>>
    ELSE <<InitNode(DeclOf(n)), ElemOf(n)>>

\* What the slot the parser put access n in holds now.
SlotValue(n) == kids[HomeSlot(n)[1]][HomeSlot(n)[2]]

\* Scope node outer encloses scope node inner (or is it): the scope nodes
\* are nested 1, 2, 3.
Encloses(outer, inner) == outer <= inner

\* The declarations of a name that scope node s holds.
DeclaredIn(name, s) ==
    {d \in Decls : prog.decls[d].name = name /\ prog.decls[d].scope = s}

\* Block scoping: access n refers to declaration d when the innermost scope
\* node around n that declares n's name declares it once, as d.
RefersTo(n, d) ==
    \E t \in ScopeNodes :
        /\ Encloses(t, HomeScope(n))
        /\ DeclaredIn(AccessName(n), t) = {d}
        /\ \A u \in ScopeNodes :
              (u > t /\ Encloses(u, HomeScope(n)))
                  => DeclaredIn(AccessName(n), u) = {}

\* The initializer of d as written has no element that is not a literal
\* (holes allowed, as isLiteralArrayDeclaration allows them).
LiteralAsWritten(d) ==
    \A i \in 1..Length(d) : prog.decls[d].elems[i].kind \in {"lit", "hole"}

\* d as written has a literal (not a hole) at index k.
HoldsLiteralAt(d, k) ==
    /\ k >= 0 /\ k < Length(d)
    /\ prog.decls[d].elems[k + 1].kind = "lit"

\* a has all-literal elements and b's initializer consists only of in-range
\* accesses a[i].
CascadeAsClaimed(a, b) ==
    /\ LiteralAsWritten(a)
    /\ \A j \in 1..Length(b) :
          /\ prog.decls[b].elems[j].kind = "acc"
          /\ RefersTo(ElemNode(b, j), a)
          /\ prog.decls[b].elems[j].index < Length(a)

\* The same with a non-empty b whose accesses name positions of a that hold
\* a literal.
Cascade(a, b) ==
    /\ CascadeAsClaimed(a, b)
    /\ Length(b) > 0
    /\ \A j \in 1..Length(b) : HoldsLiteralAt(a, prog.decls[b].elems[j].index)

\* The in-range accesses b[j] that refer to declaration b.
UsesOf(b) ==
    {n \in AccessNodes :
        /\ AccessIndex(n) >= 0 /\ AccessIndex(n) < Length(b)
        /\ RefersTo(n, b)}

\* An array of b's name, all literal as written and declared around access
\* n, has a literal at n's index: the round-1 rewrite finds it while b is
\* not registered yet.
OuterLiteralAt(n, b) ==
    \E d \in Decls \ {b} :
        /\ prog.decls[d].name = prog.decls[b].name
        /\ Encloses(prog.decls[d].scope, HomeScope(n))
        /\ LiteralAsWritten(d)
        /\ HoldsLiteralAt(d, AccessIndex(n))

\* The uses of b that only b can serve.
OwnUsesOf(b) == {n \in UsesOf(b) : ~OuterLiteralAt(n, b)}

\* This execute() has finished its r-th findArrays / its r-th unpackArrays.
AfterFind(r) == round > r \/ (round = r /\ pc # "findArrays")
AfterUnpack(r) == round > r

\* What the claim's cascade promises of a and b for the uses in U, and of
\* b's counter when bUsed.
CascadeRuns(a, b, U, bUsed) ==
    /\ AfterFind(1) =>
          /\ Declarator(a) \in arrayNodes
          /\ regRound[Declarator(a)] = 1
          /\ Declarator(b) \in arrayNodes => regRound[Declarator(b)] # 1
    /\ AfterUnpack(1) =>
          kids[InitNode(b)] =
              [j \in 1..Length(b) |->
                  ElemNode(a, prog.decls[b].elems[j].index + 1)]
    /\ AfterFind(2) =>
          /\ Declarator(b) \in arrayNodes
          /\ regRound[Declarator(b)] = 2
    /\ AfterUnpack(2) =>
          \A n \in U :
              SlotValue(n) =
                  ElemNode(a, prog.decls[b].elems[AccessIndex(n) + 1].index + 1)
    /\ pc = "done" =>
          /\ arrays[Declarator(a)].replaceCount > 0
          /\ bUsed => arrays[Declarator(b)].replaceCount > 0

\* C2 (as claimed): when a is all literal and b's initializer consists only
\* of in-range accesses a[i], round 1 registers a and not b, the first
\* rewrite makes b's initializer the literals of a, round 2 registers b, the
\* second rewrite puts in the place of every in-range use b[j] the literal a
\* held at the position b's j-th element named, and at the end both counters
\* are positive.
C2_CascadeAsClaimed ==
    run = "first" =>
        \A a \in Decls, b \in Decls :
            CascadeAsClaimed(a, b) => CascadeRuns(a, b, UsesOf(b), TRUE)

\* C2 (amended): when a is all literal and b's initializer is non-empty and
\* consists only of accesses a[i] to positions of a that hold a literal,
\* round 1 registers a and not b, the first rewrite makes b's initializer
\* the literals of a, round 2 registers b, and the second rewrite puts the
\* literal a held at the position b's j-th element named in the place of
\* every in-range use b[j] for which no array of b's name, all literal as
\* written and declared around the use, has a literal at j; at the end a's
\* counter is positive, as is b's when it has such a use.
C2_FixpointCascade ==
    run = "first" =>
        \A a \in Decls, b \in Decls :
            Cascade(a, b) =>
                CascadeRuns(a, b, OwnUsesOf(b), OwnUsesOf(b) # {})

\* C2 witness: execute() has finished on a program with such a and b, b
\* nested in a scope node under a literal array of its name, and a use of b
\* that the outer array cannot serve, replaced and counted.
C2_Witness ==
    /\ run = "first" /\ pc = "done" /\ round = 3
    /\ \E a \in Decls, b \in Decls :
        /\ Cascade(a, b)
        /\ Length(b) = MaxLen
        /\ prog.decls[b].scope > 1
        /\ \E d \in Decls \ {b} :
              /\ prog.decls[d].name = prog.decls[b].name
              /\ prog.decls[d].scope < prog.decls[b].scope
              /\ LiteralAsWritten(d)
        /\ \E n \in OwnUsesOf(b) :
              SlotValue(n) =
                  ElemNode(a, prog.decls[b].elems[AccessIndex(n) + 1].index + 1)
        /\ arrays[Declarator(b)].replaceCount > 0

\* The declaration nodes whose initializer is all literal and that the tree
\* still holds.
LiteralDeclarationsInTree ==
    {Declarator(d) : d \in {e \in Decls :
        /\ Declarator(e) \in Range(kids[10 * e])
        /\ isLiteralArrayDeclaration(Declarator(e))}}

\* No scope node holds two declarations of one name.
NoTwoAlike ==
    \A d \in Decls, e \in Decls :
        (d # e /\ prog.decls[d].scope = prog.decls[e].scope)
            => prog.decls[d].name # prog.decls[e].name

\* C4 (as claimed): a second execution on the tree the first one left makes
\* no discovery and no mutation.
C4_SecondRunIdle ==
    run = "second" => (arrayNodes = {} /\ mutations = 0)

\* Every access of the program has a numeric literal as its index from the
\* start: none has an access as its index expression.
NoNestedIndex == \A u \in DOMAIN prog.uses : ~IsNested(prog.uses[u])

\* C4 (amended): a second execution registers again every all-literal
\* declaration the tree still holds; when no scope holds two declarations of
\* one name and no access has an access as its index expression, it changes
\* no slot of the tree (no replace, no remove) and ends at its second
\* discovery round at the latest.
C4_SecondRunMutatesNothing ==
    /\ [][(run = "second" /\ NoTwoAlike /\ NoNestedIndex) => kids' = kids]_vars
    /\ []((run = "second" /\ NoTwoAlike /\ NoNestedIndex)
            => (mutations = 0 /\ round <= 2))
    /\ []((run = "second" /\ round = 1 /\ pc = "findArrays"
              /\ Len(stack) = 1 /\ Top.todo = << >>)
            => (arrayNodes = LiteralDeclarationsInTree
                /\ foundArrays = (arrayNodes # {})))

\* C4 witness: the second execution has ended on a tree the first one had
\* rewritten and cleaned, with declarations registered again.
C4_Witness ==
    /\ run = "second" /\ pc = "done" /\ shouldRemoveArrays
    /\ NoTwoAlike /\ NoNestedIndex
    /\ arrayNodes # {}
    /\ \E d \in Decls : Declarator(d) \notin Range(kids[10 * d])
    /\ \E n \in AccessNodes : SlotValue(n) # n

\* The access the rewrite traversal is about to enter resolves to a
\* descriptor that has no element at its index.
AtOutOfRangeAccess ==
    /\ pc = "unpackArrays"
    /\ Top.todo # << >>
    /\ isSimpleArrayAccess(Head(Top.todo))
    /\ get(scopes, scope, AccessName(Head(Top.todo))) # 0
    /\ AccessIndex(Head(Top.todo)) >=
          Len(kids[arrays[get(scopes, scope, AccessName(Head(Top.todo)))].elements])

\* C5: entering an access whose index is outside the resolved array leaves
\* the tree and every usage counter as they are; an array all of whose
\* accesses (by name) are out of range keeps the counter 0 and keeps its
\* declaration, also after execute() with cleanup.
C5_OutOfRangeSafety ==
    /\ [][AtOutOfRangeAccess => (kids' = kids /\ arrays' = arrays)]_vars
    /\ [](\A d \in DOMAIN arrays :
            (\A n \in AccessNodes :
                AccessName(n) = arrays[d].name
                    => AccessIndex(n) >= Len(kids[arrays[d].elements]))
            => (arrays[d].replaceCount = 0 /\ Attached(d)))

\* C5 witness: execute() with cleanup has ended; an array in the Script was
\* accessed, out of range only, and is still declared.
C5_Witness ==
    /\ run = "first" /\ pc = "done" /\ shouldRemoveArrays
    /\ \E d \in DOMAIN arrays :
        /\ arrays[d].parentNode \in Range(kids[1])
        /\ \E n \in AccessNodes :
              /\ AccessName(n) = arrays[d].name
              /\ SlotValue(n) = n
        /\ \A n \in AccessNodes :
              AccessName(n) = arrays[d].name
                  => AccessIndex(n) >= Len(kids[arrays[d].elements])
        /\ arrays[d].replaceCount = 0
        /\ Attached(d)

\* C6: the seen set never loses a node within an execution; the flag a
\* discovery round returns goes up exactly when a node joins the seen set;
\* the loop goes on to the rewrite exactly when the flag is up and leaves at
\* the first round whose flag is down; the seen set holds declaration nodes
\* of the tree only, so the rounds are bounded by their number, and
\* execute() never stops short of its end.
C6_FixpointTerminates ==
    /\ [][run' = run => arrayNodes \subseteq arrayNodes']_vars
    /\ [][(pc = "findArrays" /\ pc' = "findArrays")
            => /\ (foundArrays' # foundArrays) => foundArrays'
               /\ (arrayNodes' # arrayNodes) <=>
                     (foundArrays' /\ Top.todo # << >>
                        /\ Head(Top.todo) \notin arrayNodes
                        /\ arrayNodes' = arrayNodes \cup {Head(Top.todo)})
               /\ (~foundArrays /\ foundArrays') => arrayNodes' # arrayNodes]_vars
    /\ [][(pc' = "findArrays" /\ round' # round) => ~foundArrays']_vars
    /\ [][(pc = "findArrays" /\ pc' # "findArrays")
            => IF foundArrays THEN pc' = "unpackArrays"
               ELSE pc' \in {"removeArrays", "done"}]_vars
    /\ [](/\ \A n \in arrayNodes :
                /\ n \in DOMAIN kids
                /\ NodeType(n) = "VariableDeclarator"
                /\ pc \in {"findArrays", "unpackArrays"} => n \in Range(kids[n - 1])
          /\ round <= Cardinality(arrayNodes) + 1
          /\ pc = "unpackArrays" => round <= Cardinality(arrayNodes)
          /\ (pc = "done" /\ run = "second") \/ ENABLED Next)

\* C6 witness: execute() has ended after three rounds that each found a new
\* array and a fourth that found none.
C6_Witness ==
    /\ run = "first" /\ pc = "done"
    /\ round = 4
    /\ Cardinality(arrayNodes) = 3

(***************************************************************************)
(* Further claims about ArrayUnpacker (checked under Spec).                *)
(***************************************************************************)
\* The declarations of the name access n uses that have been discovered so
\* far in this execution and whose scope node encloses the access site.
DiscoveredAround(n) ==
    {d \in Decls :
        /\ prog.decls[d].name = AccessName(n)
        /\ Declarator(d) \in arrayNodes
        /\ Encloses(prog.decls[d].scope, HomeScope(n))}

\* Nearer scope node first; within one scope node the binding made last (the
\* later round, then the later declaration) is the one the name is bound to.
BindingRank(d) ==
    100 * prog.decls[d].scope + 10 * regRound[Declarator(d)] + d

\* The descriptor bound to the name of n in the nearest enclosing Scope among
\* all arrays discovered so far.
NearestDiscovered(n) ==
    {Declarator(d) : d \in {e \in DiscoveredAround(n) :
        \A f \in DiscoveredAround(n) : BindingRank(f) <= BindingRank(e)}}

\* C13 (as claimed): whenever a rewrite traversal is about to replace an
\* access identifier[k], the descriptor whose element it puts in is the one
\* bound to the name in the nearest enclosing Scope of the access site among
\* all arrays discovered so far (so an access whose nearest such array has no
\* element at k is not given an element of an outer array of the name).
C13_ScopeCorrectInlining ==
    (pc = "unpackArrays" /\ Top.todo # << >>
        /\ isSimpleArrayAccess(Head(Top.todo))
        /\ get(scopes, scope, AccessName(Head(Top.todo))) # 0
        /\ ElementAt(kids, arrays[get(scopes, scope, AccessName(Head(Top.todo)))],
                     AccessIndex(Head(Top.todo))) # 0)
    => get(scopes, scope, AccessName(Head(Top.todo)))
          \in NearestDiscovered(Head(Top.todo))

\* C14 (as claimed): the root of the pass's Scope tree (every Scope without
\* a parent) has kind Global; every other Scope has one parent, a Scope
\* built before it, whose children hold a Scope for its node; and the Scope
\* built last under a parent is the value at its node's key in that parent's
\* children.
C14_ScopeTreeShape ==
    globalScope # 0 =>
        /\ scopes[globalScope].parent = 0
        /\ scopes[globalScope].type = "Global"
        /\ \A s \in DOMAIN scopes :
              IF scopes[s].parent = 0
              THEN scopes[s].type = "Global"
              ELSE /\ scopes[s].parent \in 1..(s - 1)
                   /\ MapHas(scopes[scopes[s].parent].children, scopes[s].node)
                   /\ scopes[scopes[scopes[s].parent].children[scopes[s].node]].node
                         = scopes[s].node
                   /\ (\A t \in DOMAIN scopes :
                          (scopes[t].parent = scopes[s].parent
                              /\ scopes[t].node = scopes[s].node) => t <= s)
                        => scopes[scopes[s].parent].children[scopes[s].node] = s

\* The declaration nodes d (with their parent) that a step detaches.
Detached ==
    {d \in Decls : Declarator(d) \in Range(kids[10 * d])
                   /\ Declarator(d) \notin Range(kids'[10 * d])}

\* C15: a step takes a declaration node out of its parent only when it is
\* the cleanup step, cleanup is configured and the declaration's descriptor
\* has a usage counter above zero; no step but that one shortens any child
\* sequence or takes a declaration, initializer or scope node out of its
\* slot, so without cleanup nothing is removed; and once execute() has
\* ended, every descriptor with counter zero still has its declaration in
\* the parent recorded for it.
C15_RemovalConditional ==
    /\ [][\A d \in Detached :
            /\ pc = "removeArrays" /\ shouldRemoveArrays
            /\ Declarator(d) \in DOMAIN arrays
            /\ arrays[Declarator(d)].replaceCount > 0]_vars
    /\ [][(pc # "removeArrays" \/ ~shouldRemoveArrays) =>
            \A p \in DOMAIN kids :
                /\ Len(kids'[p]) = Len(kids[p])
                /\ \A i \in DOMAIN kids[p] :
                      NodeType(kids[p][i]) # "ComputedMemberExpression"
                          => kids'[p][i] = kids[p][i]]_vars
    /\ [](pc = "done" =>
            \A d \in DOMAIN arrays :
                arrays[d].replaceCount = 0 => Attached(d))
    /\ []((pc = "done" /\ ~shouldRemoveArrays /\ run = "first") =>
            \A d \in Decls : Declarator(d) \in Range(kids[10 * d]))

\* C15 witness: execute() with cleanup has ended; one declaration was used
\* and is gone, another was never used and is still in place.
C15_Witness ==
    /\ run = "first" /\ pc = "done" /\ shouldRemoveArrays
    /\ \E d \in DOMAIN arrays : arrays[d].replaceCount > 0 /\ ~Attached(d)
    /\ \E d \in DOMAIN arrays : arrays[d].replaceCount = 0 /\ Attached(d)

\* The Block/FunctionBody nodes the running traversal has entered and not
\* yet left, outermost first.
OpenScopeNodes ==
    SelectSeq([i \in DOMAIN stack |-> stack[i].node],
              LAMBDA n : n # 0 /\ NodeType(n) \in scopeTypes)

Reverse(q) == [i \in DOMAIN q |-> q[Len(q) + 1 - i]]

\* C16: between the callbacks of a discovery or rewrite traversal the active
\* Scope is the Scope of the innermost Block/FunctionBody node entered and
\* not yet left, the root Scope when there is none: its parent chain mirrors
\* the open scope nodes up to the root Scope, and each Scope on it is the one
\* its parent's children hold for its node (in a rewrite, the Scope the
\* preceding discovery built and the lookup found); when the traversal has
\* left the root node the active Scope is the root Scope.
C16_ScopeStackDiscipline ==
    (pc \in {"findArrays", "unpackArrays"}) =>
        /\ scope # 0
        /\ \E c \in {chain(scopes, scope)} :
              /\ [i \in DOMAIN c |-> scopes[c[i]].node]
                    = Reverse(OpenScopeNodes) \o <<scopes[globalScope].node>>
              /\ c[Len(c)] = globalScope
              /\ \A i \in 1..(Len(c) - 1) :
                    /\ MapHas(scopes[c[i + 1]].children, scopes[c[i]].node)
                    /\ scopes[c[i + 1]].children[scopes[c[i]].node] = c[i]
        /\ OpenScopeNodes = << >> => scope = globalScope
        /\ (Len(stack) = 1 /\ Top.todo = << >>) => scope = globalScope

\* C16 witness: the rewrite traversal of round 2 is inside the FunctionBody
\* in the Block, with the Scope found for it active.
C16_Witness ==
    /\ pc = "unpackArrays" /\ round = 2
    /\ OpenScopeNodes = <<2, 3>>
    /\ Top.node > 100
    /\ scopes[scope].node = 3
    /\ scopes[scopes[scope].parent].node = 2
    /\ scopes[scopes[scope].parent].parent = globalScope

(***************************************************************************)
(* Claims about deobfuscate (checked under OrchSpec).                      *)
(***************************************************************************)
\* The order the passes are said to run in, each with the switch that
\* enables it.
ClaimedOrder ==
    << <<"ProxyRemover", "replaceProxyFunctions">>,
       <<"ExpressionSimplifier", "simplifyExpressions">>,
       <<"ArrayUnpacker", "unpackArrays">>,
       <<"ExpressionSimplifier", "simplifyExpressions">>,
       <<"DeadBranchRemover", "removeDeadBranches">>,
       <<"PropertySimplifier", "simplifyProperties">>,
       <<"StringDecoder", "undoStringOperations">>,
       <<"VariableRenamer", "renameHexIdentifiers">> >>

PassNames(q) == [k \in DOMAIN q |-> q[k][1]]

\* The passes of the claimed order a configuration enables, one per slot.
EnabledPasses(config) ==
    PassNames(SelectSeq(ClaimedOrder, LAMBDA e : config[e[2]]))

\* The passes whose execute() has begun / has returned, in order.
Begun == [k \in DOMAIN SelectSeq(orch.log, LAMBDA e : e.ev = "begin") |->
             SelectSeq(orch.log, LAMBDA e : e.ev = "begin")[k].pass]
Ended == [k \in DOMAIN SelectSeq(orch.log, LAMBDA e : e.ev = "end") |->
             SelectSeq(orch.log, LAMBDA e : e.ev = "end")[k].pass]

IsPrefix(a, b) == Len(a) <= Len(b) /\ a = SubSeq(b, 1, Len(a))

\* C12: the passes executed so far are the first ones of the enabled slots
\* of the claimed order (so each enabled pass runs once per slot, in that
\* order, and a disabled pass never runs); every pass is built on the one
\* ast; an execute() that has begun is followed in the log by its own return
\* and by nothing else; the cleanup step is the last event and comes after
\* all enabled slots have run and returned; deobfuscate ends only after it.
C12_StrictSequence ==
    orch.pc # "none" =>
        /\ IsPrefix(Begun, EnabledPasses(orch.config))
        /\ \A m \in Range(orch.modifications) : m.ast = "ast"
        /\ \A k \in DOMAIN orch.log :
              /\ orch.log[k].ev = "begin" =>
                    (k = Len(orch.log)
                        \/ orch.log[k + 1] = Event("end", orch.log[k].pass))
              /\ orch.log[k].ev = "end" =>
                    (k > 1 /\ orch.log[k - 1] = Event("begin", orch.log[k].pass))
              /\ orch.log[k].ev = "cleanup" =>
                    /\ k = Len(orch.log)
                    /\ Begun = EnabledPasses(orch.config)
                    /\ Ended = Begun
        /\ orch.pc = "done" =>
              /\ orch.log # << >>
              /\ orch.log[Len(orch.log)].ev = "cleanup"
              /\ Begun = EnabledPasses(orch.config)

\* C12 witness: deobfuscate has ended with every switch on: eight passes
\* ran, ExpressionSimplifier second and fourth, around ArrayUnpacker.
C12_Witness ==
    /\ orch.pc = "done"
    /\ \A f \in ConfigFlags : orch.config[f]
    /\ Len(Begun) = 8
    /\ Begun[2] = "ExpressionSimplifier"
    /\ Begun[3] = "ArrayUnpacker"
    /\ Begun[4] = "ExpressionSimplifier"
    /\ Ended = Begun

====
